---- MODULE Spec2Model ----
(***************************************************************************)
(* Notes application: the Note Store (optimistic-concurrency update on a   *)
(* version counter) and one browser client (Dashboard and EditNote pages   *)
(* talking to the store through notesAPI).                                 *)
(***************************************************************************)
EXTENDS Integers, Sequences, FiniteSets, TLC

\* ------------------------------------------------------------ bounds
MaxNotes == 1
MaxVersion == 3
MaxInflight == 2
MaxOrphans == 0

\* ------------------------------------------------------------ domains
Users == {"u1", "u2"}
Me == "u1"
NoteIds == 1..MaxNotes
\* identifiers a route /notes/{id}/edit may carry: those of notes, and one never assigned
RouteIds == 1..(MaxNotes + 1)
Versions == 1..MaxVersion
Titles == {"A", "C"}
Queries == {"", "A", "C"}

Omitted == "<omitted>"
NoNote == [id |-> 0]
NoResp == [status |-> 0]

\* HTTP status codes of the REST surface
StatusOK == 200
StatusNotFound == 404
StatusConflict == 409
StatusServerError == 500
StatusBadRequest == 400
StatusUnauthorized == 401

\* tokens the authentication endpoints issue; what localStorage holds without one
MaxTokens == 2
Tokens == 1..MaxTokens
NoToken == 0
\* AuthProvider's user when nobody is logged in
NoUser == "null"
\* window.location: the routes of App, and no navigation pending
PublicPaths == {"/login", "/register"}
ProtectedPaths == {"/dashboard", "/notes/new", "/notes/:id/edit"}
Paths == PublicPaths \cup ProtectedPaths
NoHref == ""
\* nothing returned by login() or register() yet
NoReturn == [call |-> "", success |-> FALSE, error |-> ""]

\* ------------------------------------------------------------ state
VARIABLES
    notes,        \* Note Store: id -> stored note document (existing ids only)
    nextId,       \* Note Store: next identifier to assign
    net,          \* browser client: requests in flight (issued, maybe answered)
    page,         \* browser client: mounted page, "dashboard" or "edit"
    dash,         \* Dashboard component state
    edit,         \* EditNote component state
    alert,        \* browser client: text of the window.alert on screen, "" when none
    seen,         \* history: per note id, the version the client most recently received (0: none)
    failed,       \* history: operations answered with an error since the last user action
    gone,         \* history: ids of the notes whose delete the client saw succeed
    latest,       \* history: what became of the list request the Dashboard issued last
    auth,         \* AuthProvider state: user, loading, and whether its mount effect has run
    token,        \* localStorage item 'token' (NoToken: no item)
    location,     \* window.location: path shown, href assigned and not yet loaded
    areq,         \* authentication model: requests in flight with their Authorization header
    idp,          \* authentication endpoints: tokens issued, their users, the valid ones
    returned,     \* history: what the last finished login() or register() returned
    revoked       \* history: the tokens a 401 response removed from localStorage

notesVars == <<notes, nextId, net, page, dash, edit, alert, seen, failed, gone, latest>>
sessionVars == <<auth, token, areq, idp, returned, revoked>>
vars == <<notes, nextId, net, page, dash, edit, alert, seen, failed, gone, latest,
          auth, token, location, areq, idp, returned, revoked>>

\* ------------------------------------------------------------ Note Store
Exists(S, id) == id \in DOMAIN S

Owned(S, user, id) == Exists(S, id) /\ S[id].owner = user

OkNote(n) == [status |-> StatusOK, note |-> n, notes |-> <<>>, detail |-> "", message |-> ""]

ErrResp(st, d) == [status |-> st, note |-> NoNote, notes |-> <<>>, detail |-> d, message |-> ""]

NotFound == ErrResp(StatusNotFound, "Note not found")

Conflict == ErrResp(StatusConflict, "Version conflict")

NewNote(id, user, data) ==
    [id |-> id, owner |-> user, title |-> data.title, content |-> data.content,
     tags |-> data.tags, is_favorite |-> data.is_favorite,
     version |-> 1, updated_at |-> 0]

\* POST /notes/
CreateStore(S, id, user, data) ==
    [n \in DOMAIN S \cup {id} |-> IF n = id THEN NewNote(id, user, data) ELSE S[n]]

\* variant: a successful update moves the version two steps
ApplyChangesSkip(n, body) ==
    [f \in DOMAIN n |->
        IF f \in (DOMAIN body) \ {"version"} THEN body[f]
        ELSE IF f = "version" THEN body.version + 2
        ELSE IF f = "updated_at" THEN n.updated_at + 1
        ELSE n[f]]

\* fieldChanges: any subset of {title, content, tags, is_favorite}
\* (updated_at is logical time: each write to a note moves its timestamp forward)
ApplyChanges(n, body) ==
    [f \in DOMAIN n |->
        IF f \in (DOMAIN body) \ {"version"} THEN body[f]
        ELSE IF f = "version" THEN body.version + 1
        ELSE IF f = "updated_at" THEN n.updated_at + 1
        ELSE n[f]]

\* variant: the store accepts the owner's update whatever version it presents
UpdateOkAnyVersion(S, user, id, body) == Owned(S, user, id)

\* PUT /notes/{id}: find-then-conditional-replace, one atomic step
UpdateOk(S, user, id, body) == Owned(S, user, id) /\ S[id].version = body.version

\* variant: a stale update still writes its title
UpdateStorePartial(S, user, id, body) ==
    IF UpdateOk(S, user, id, body)
    THEN [S EXCEPT ![id] = ApplyChanges(S[id], body)]
    ELSE IF Owned(S, user, id) /\ "title" \in DOMAIN body
         THEN [S EXCEPT ![id].title = body.title]
         ELSE S

UpdateStore(S, user, id, body) ==
    IF UpdateOk(S, user, id, body)
    THEN [S EXCEPT ![id] = ApplyChanges(S[id], body)]
    ELSE S

UpdateResp(S, user, id, body) ==
    IF ~Owned(S, user, id) THEN NotFound
    ELSE IF S[id].version # body.version THEN Conflict
    ELSE OkNote(ApplyChanges(S[id], body))

\* variant: get answers with any existing note, whoever owns it
GetRespAnyOwner(S, user, id) == IF Exists(S, id) THEN OkNote(S[id]) ELSE NotFound

\* GET /notes/{id}
GetResp(S, user, id) == IF Owned(S, user, id) THEN OkNote(S[id]) ELSE NotFound

\* variant: delete answers as done and keeps the note
DeleteStoreKeeps(S, user, id) == S

\* DELETE /notes/{id}: hard delete
DeleteStore(S, user, id) ==
    IF Owned(S, user, id) THEN [n \in (DOMAIN S) \ {id} |-> S[n]] ELSE S

DeleteResp(S, user, id) ==
    IF Owned(S, user, id) THEN OkNote(NoNote) ELSE NotFound

\* GET /notes/?search=: the caller's notes, in identifier order
Matches(n, q) ==
    q = Omitted \/ n.title = q \/ n.content = q \/ \E j \in DOMAIN n.tags : n.tags[j] = q

RECURSIVE ListFrom(_, _, _, _)
ListFrom(S, user, q, i) ==
    IF i > MaxNotes THEN <<>>
    ELSE IF Owned(S, user, i) /\ Matches(S[i], q)
         THEN <<S[i]>> \o ListFrom(S, user, q, i + 1)
         ELSE ListFrom(S, user, q, i + 1)

ListResp(S, user, q) ==
    [status |-> StatusOK, note |-> NoNote, notes |-> ListFrom(S, user, q, 1),
     detail |-> "", message |-> ""]

\* ------------------------------------------------------------ sessions other than the browser client
\* another session retitles a note
ExtBodies == {[title |-> "C", version |-> v] : v \in Versions}

NewData == {[title |-> "A", content |-> "B", tags |-> <<>>, is_favorite |-> FALSE]}

ExtCreate(u, data) ==
    /\ nextId <= MaxNotes
    /\ notes' = CreateStore(notes, nextId, u, data)
    /\ nextId' = nextId + 1
    /\ UNCHANGED <<net, page, location, dash, edit, alert, seen, failed, gone, sessionVars, latest>>

ExtUpdate(u, id, body) ==
    /\ UpdateOk(notes, u, id, body) => body.version < MaxVersion
    /\ notes' = UpdateStore(notes, u, id, body)
    /\ UNCHANGED <<nextId, net, page, location, dash, edit, alert, seen, failed, gone, sessionVars, latest>>

ExtDelete(u, id) ==
    /\ notes' = DeleteStore(notes, u, id)
    /\ UNCHANGED <<nextId, net, page, location, dash, edit, alert, seen, failed, gone, sessionVars, latest>>

\* ------------------------------------------------------------ api.js
\* error.message, as the HTTP client sets it for a response with an error status
AxiosMessage(status) ==
    IF status = StatusServerError THEN "Request failed with status code 500"
    ELSE IF status = StatusNotFound THEN "Request failed with status code 404"
    ELSE IF status = StatusConflict THEN "Request failed with status code 409"
    ELSE ""

\* getErrorMessage(error): data.detail, else data.message, else error.message
getErrorMessage(resp) ==
    IF resp.detail # "" THEN resp.detail
    ELSE IF resp.message # "" THEN resp.message
    ELSE IF AxiosMessage(resp.status) # "" THEN AxiosMessage(resp.status)
    ELSE "An unexpected error occurred. Please try again."

\* a request of the browser client, from the handler src that awaits it
Req(src, id, body, ctx) ==
    [src |-> src, id |-> id, body |-> body, ctx |-> ctx, resp |-> NoResp, live |-> TRUE]

NoCtx == [notes |-> <<>>, note |-> NoNote]

NoBody == [version |-> 0]

RemoveAt(s, i) == SubSeq(s, 1, i - 1) \o SubSeq(s, i + 1, Len(s))

Answered(i) == net[i].resp # NoResp

\* the store's answer to a request of the browser client (bearer: Me)
StoreResp(r) ==
    CASE r.src = "loadNotes" -> ListResp(notes, Me, r.body.search)
      [] r.src = "loadNote" -> GetResp(notes, Me, r.id)
      [] r.src \in {"toggle", "submit"} -> UpdateResp(notes, Me, r.id, r.body)
      [] r.src = "delete" -> DeleteResp(notes, Me, r.id)

StoreAfter(r) ==
    CASE r.src \in {"toggle", "submit"} -> UpdateStore(notes, Me, r.id, r.body)
      [] r.src = "delete" -> DeleteStore(notes, Me, r.id)
      [] OTHER -> notes

Writes(r) == r.src \in {"toggle", "submit"} /\ UpdateOk(notes, Me, r.id, r.body)

\* the server handles request i of the browser client
Serve(i) ==
    /\ ~Answered(i)
    /\ Writes(net[i]) => net[i].body.version < MaxVersion
    /\ net' = [net EXCEPT ![i].resp = StoreResp(net[i])]
    /\ notes' = StoreAfter(net[i])
    /\ UNCHANGED <<nextId, page, location, dash, edit, alert, seen, failed, gone, sessionVars, latest>>

\* texts the server may put in the detail of such an answer
ErrorDetails == {"", "Update failed: version conflict"}

\* the request fails otherwise (server error) with detail d, the store untouched
ServeErrorWith(i, d) ==
    /\ ~Answered(i)
    /\ net' = [net EXCEPT ![i].resp = ErrResp(StatusServerError, d)]
    /\ UNCHANGED <<notes, nextId, page, location, dash, edit, alert, seen, failed, gone, sessionVars, latest>>

\* the request fails otherwise (server error), the store untouched
ServeError(i) ==
    /\ ~Answered(i)
    /\ net' = [net EXCEPT ![i].resp = ErrResp(StatusServerError, "")]
    /\ UNCHANGED <<notes, nextId, page, location, dash, edit, alert, seen, failed, gone, sessionVars, latest>>

\* ------------------------------------------------------------ history
\* the client receives note n
SeenNote(sn, n) == [sn EXCEPT ![n.id] = n.version]

\* the client receives the notes of a list response
SeenList(sn, ns) ==
    [id \in DOMAIN sn |->
        IF \E j \in DOMAIN ns : ns[j].id = id
        THEN (CHOOSE n \in {ns[j] : j \in DOMAIN ns} : n.id = id).version
        ELSE sn[id]]

\* ------------------------------------------------------------ Dashboard.jsx: Dashboard
\* window.alert is modal: no handler, timer or callback runs until it is dismissed
Idle == alert = ""

DismissAlert ==
    /\ alert # ""
    /\ alert' = ""
    /\ UNCHANGED <<notes, nextId, net, page, location, dash, edit, seen, failed, gone, sessionVars, latest>>

\* (timers: the debounce timers pending, each with the searchQuery its callback closed over)
DashInit ==
    [notes |-> <<>>, loading |-> TRUE, searchQuery |-> "", error |-> "",
     timers |-> {}]

InitForm == [title |-> "", content |-> "", tags |-> "", is_favorite |-> FALSE, version |-> 1]

\* (trail is history: "conflict" once a submit of this session was answered 409,
\*  "reloaded" once a load has completed after that)
EditInit ==
    [id |-> 0, formData |-> InitForm, loading |-> TRUE, saving |-> FALSE, error |-> "",
     trail |-> ""]

\* const params = search ? { search } : {}
ListParams(search) == [search |-> IF search # "" THEN search ELSE Omitted]

\* a component unmounts: its pending reads go unheard, its pending writes still reach the store
Orphan(q) ==
    LET Kept(r) == r.src \in {"toggle", "submit", "delete"}
    IN  [i \in 1..Len(SelectSeq(q, Kept)) |-> [SelectSeq(q, Kept)[i] EXCEPT !.live = FALSE]]

Room(q) == Len(q) < MaxInflight

\* leaving a page while no more than MaxOrphans of its writes are pending
MayLeave == Len(Orphan(net)) <= MaxOrphans

\* loadNotes(search), up to the await
loadNotes(d, search) == [d EXCEPT !.loading = TRUE, !.error = ""]

\* the Dashboard mounts: both effects run, loadNotes() and the debounce timer
MountDashboard(q) ==
    /\ page' = "dashboard"
    /\ location' = [location EXCEPT !.path = "/dashboard"]
    /\ dash' = [loadNotes(DashInit, "") EXCEPT !.timers = {""}]
    /\ edit' = EditInit
    /\ latest' = "pending"
    /\ net' = Append(q, Req("loadNotes", 0, ListParams(""), NoCtx))

\* a debounce timer expires: its callback runs loadNotes(searchQuery) or loadNotes(),
\* searchQuery being the one of the render that started the timer
TimerFire(t) ==
    /\ Idle
    /\ page = "dashboard" /\ t \in dash.timers
    /\ Room(net)
    /\ dash' = [loadNotes(dash, t) EXCEPT !.timers = @ \ {t}]
    /\ net' = Append(net, Req("loadNotes", 0, ListParams(t), NoCtx))
    /\ latest' = "pending"
    /\ UNCHANGED <<notes, nextId, page, location, edit, alert, seen, failed, gone, sessionVars>>

\* variant: the effect has no cleanup, the timer of the previous query stays
TypeSearchNoCleanup(q) ==
    /\ Idle
    /\ page = "dashboard"
    /\ q # dash.searchQuery
    /\ dash' = [dash EXCEPT !.searchQuery = q, !.timers = @ \cup {q}]
    /\ failed' = {}
    /\ UNCHANGED <<notes, nextId, net, page, location, edit, alert, seen, gone, sessionVars, latest>>

\* onChange of the search input: setSearchQuery(q); the effect's cleanup clears the timer
\* the previous run started, and the effect starts one for q
TypeSearch(q) ==
    /\ Idle
    /\ page = "dashboard"
    /\ q # dash.searchQuery
    /\ dash' = [dash EXCEPT !.searchQuery = q,
                            !.timers = (@ \ {dash.searchQuery}) \cup {q}]
    /\ failed' = {}
    /\ UNCHANGED <<notes, nextId, net, page, location, edit, alert, seen, gone, sessionVars, latest>>

\* request i is the list request issued last (requests are kept in the order issued)
IssuedLast(q, i) ==
    /\ q[i].src = "loadNotes"
    /\ \A j \in DOMAIN q : q[j].src = "loadNotes" => j <= i

\* what the delivery of list request i of q makes of the history: the answer to the
\* request issued last is recorded, an answer to an earlier one changes nothing
LatestAfter(l, q, i) ==
    IF l = "pending" /\ IssuedLast(q, i)
    THEN IF q[i].resp.status = StatusOK THEN "shown" ELSE "failed"
    ELSE l

\* variant: loadNotes sends its request again when it fails
DeliverListRetry(i) ==
    /\ Idle
    /\ Answered(i) /\ net[i].src = "loadNotes" /\ net[i].live
    /\ IF net[i].resp.status = StatusOK
       THEN /\ dash' = [dash EXCEPT !.notes = net[i].resp.notes, !.loading = FALSE]
            /\ seen' = SeenList(seen, net[i].resp.notes)
            /\ failed' = failed
            /\ net' = RemoveAt(net, i)
       ELSE /\ dash' = [dash EXCEPT !.error = getErrorMessage(net[i].resp)]
            /\ seen' = seen
            /\ failed' = failed \cup {"list"}
            /\ net' = Append(RemoveAt(net, i), [net[i] EXCEPT !.resp = NoResp])
    /\ latest' = IF net[i].resp.status = StatusOK THEN LatestAfter(latest, net, i) ELSE "pending"
    /\ UNCHANGED <<notes, nextId, page, location, edit, alert, gone, sessionVars>>

\* loadNotes, after the await
DeliverList(i) ==
    /\ Idle
    /\ Answered(i) /\ net[i].src = "loadNotes" /\ net[i].live
    /\ IF net[i].resp.status = StatusOK
       THEN /\ dash' = [dash EXCEPT !.notes = net[i].resp.notes, !.loading = FALSE]
            /\ seen' = SeenList(seen, net[i].resp.notes)
            /\ failed' = failed
       ELSE /\ dash' = [dash EXCEPT !.error = getErrorMessage(net[i].resp), !.loading = FALSE]
            /\ seen' = seen
            /\ failed' = failed \cup {"list"}
    /\ net' = RemoveAt(net, i)
    /\ latest' = LatestAfter(latest, net, i)
    /\ UNCHANGED <<notes, nextId, page, location, edit, alert, gone, sessionVars>>

\* the body of the favorite toggle's PUT
ToggleBody(note) == [is_favorite |-> ~note.is_favorite, version |-> note.version]

\* handleToggleFavorite(note), up to the await
ClickToggle(k) ==
    /\ Idle
    /\ page = "dashboard" /\ k \in DOMAIN dash.notes
    /\ Room(net)
    /\ net' = Append(net, Req("toggle", dash.notes[k].id, ToggleBody(dash.notes[k]),
                              [notes |-> dash.notes, note |-> dash.notes[k]]))
    /\ failed' = {}
    /\ UNCHANGED <<notes, nextId, page, location, dash, edit, alert, seen, gone, sessionVars, latest>>

\* notes.map(n => n.id === note.id ? updatedNote : n), notes being the handler's closure
MapUpdated(ns, id, updatedNote) ==
    [j \in 1..Len(ns) |-> IF ns[j].id = id THEN updatedNote ELSE ns[j]]

\* handleToggleFavorite(note), after the await
DeliverToggle(i) ==
    /\ Idle
    /\ Answered(i) /\ net[i].src = "toggle"
    /\ IF net[i].resp.status = StatusOK
       THEN /\ dash' = IF net[i].live
                       THEN [dash EXCEPT !.notes = MapUpdated(net[i].ctx.notes, net[i].id,
                                                              net[i].resp.note)]
                       ELSE dash
            /\ alert' = alert
            /\ seen' = SeenNote(seen, net[i].resp.note)
            /\ failed' = failed
       ELSE /\ alert' = getErrorMessage(net[i].resp)
            /\ dash' = dash
            /\ seen' = seen
            /\ failed' = failed \cup {"update"}
    /\ net' = RemoveAt(net, i)
    /\ UNCHANGED <<notes, nextId, page, location, edit, gone, sessionVars, latest>>

\* handleDeleteNote(note), confirmed, up to the await
ClickDelete(k) ==
    /\ Idle
    /\ page = "dashboard" /\ k \in DOMAIN dash.notes
    /\ Room(net)
    /\ net' = Append(net, Req("delete", dash.notes[k].id, NoBody,
                              [notes |-> dash.notes, note |-> dash.notes[k]]))
    /\ failed' = {}
    /\ UNCHANGED <<notes, nextId, page, location, dash, edit, alert, seen, gone, sessionVars, latest>>

\* notes.filter(n => n.id !== note.id)
FilterOut(ns, id) == LET Keep(n) == n.id # id IN SelectSeq(ns, Keep)

\* handleDeleteNote(note), the user answering the confirm dialog with Cancel
CancelDelete(k) ==
    /\ Idle
    /\ page = "dashboard" /\ k \in DOMAIN dash.notes
    /\ failed' = {}
    /\ UNCHANGED <<notes, nextId, net, page, location, dash, edit, alert, seen, gone, sessionVars, latest>>

\* handleDeleteNote(note), after the await
DeliverDelete(i) ==
    /\ Idle
    /\ Answered(i) /\ net[i].src = "delete"
    /\ IF net[i].resp.status = StatusOK
       THEN /\ dash' = IF net[i].live
                       THEN [dash EXCEPT !.notes = FilterOut(net[i].ctx.notes, net[i].id)]
                       ELSE dash
            /\ alert' = alert
            /\ failed' = failed
            /\ gone' = gone \cup {net[i].id}
       ELSE /\ alert' = getErrorMessage(net[i].resp)
            /\ dash' = dash
            /\ failed' = failed \cup {"delete"}
            /\ gone' = gone
    /\ net' = RemoveAt(net, i)
    /\ UNCHANGED <<notes, nextId, page, location, edit, seen, sessionVars, latest>>

\* ------------------------------------------------------------ Dashboard.jsx: EditNote
ConflictMessage ==
    "This note was modified by another session. Please refresh the page to get the latest version and try again."

\* note.tags ? note.tags.join(', ') : ''
JoinTags(ts) == IF ts = <<>> THEN "" ELSE ts[1]

\* formData.tags.split(',').map(trim).filter(nonempty)
ParseTags(str) == IF str = "" THEN <<>> ELSE <<str>>

\* loadNote(), up to the await
loadNote(e) == [e EXCEPT !.loading = TRUE, !.error = ""]

\* the EditNote page mounts for /notes/{id}/edit: the effect runs loadNote()
MountEdit(q, id) ==
    /\ page' = "edit"
    /\ location' = [location EXCEPT !.path = "/notes/:id/edit"]
    /\ latest' = "none"
    /\ edit' = loadNote([EditInit EXCEPT !.id = id])
    /\ dash' = DashInit
    /\ net' = Append(q, Req("loadNote", id, NoBody, NoCtx))

\* a link or the address bar opens /notes/{id}/edit from the Dashboard
OpenEdit(id) ==
    /\ Idle
    /\ page = "dashboard"
    /\ MayLeave /\ Room(Orphan(net))
    /\ MountEdit(Orphan(net), id)
    /\ failed' = {}
    /\ UNCHANGED <<notes, nextId, alert, seen, gone, sessionVars>>

\* Cancel / Back to Notes
BackToDashboard ==
    /\ Idle
    /\ page = "edit"
    /\ MayLeave /\ Room(Orphan(net))
    /\ MountDashboard(Orphan(net))
    /\ failed' = {}
    /\ UNCHANGED <<notes, nextId, alert, seen, gone, sessionVars>>

\* the route parameter changes under the mounted EditNote: the [id] effect runs loadNote()
RouteChange(id) ==
    /\ Idle
    /\ page = "edit" /\ id # edit.id
    /\ Room(net)
    /\ edit' = loadNote([edit EXCEPT !.id = id])
    /\ net' = Append(net, Req("loadNote", id, NoBody, NoCtx))
    /\ failed' = {}
    /\ UNCHANGED <<notes, nextId, page, location, dash, alert, seen, gone, sessionVars, latest>>

\* variant: the form keeps its initial version when a note is loaded
FormOfInitialVersion(note) ==
    [title |-> note.title, content |-> note.content, tags |-> JoinTags(note.tags),
     is_favorite |-> note.is_favorite, version |-> InitForm.version]

\* setFormData({...}) from the loaded note
FormOf(note) ==
    [title |-> note.title, content |-> note.content, tags |-> JoinTags(note.tags),
     is_favorite |-> note.is_favorite, version |-> note.version]

\* loadNote(), after the await
DeliverLoadNote(i) ==
    /\ Idle
    /\ Answered(i) /\ net[i].src = "loadNote" /\ net[i].live
    /\ IF net[i].resp.status = StatusOK
       THEN /\ edit' = [edit EXCEPT !.formData = FormOf(net[i].resp.note),
                                    !.loading = FALSE,
                                    !.trail = IF @ = "conflict" THEN "reloaded" ELSE @]
            /\ seen' = SeenNote(seen, net[i].resp.note)
            /\ failed' = failed
       ELSE /\ edit' = [edit EXCEPT !.error = getErrorMessage(net[i].resp), !.loading = FALSE]
            /\ seen' = seen
            /\ failed' = failed \cup {"get"}
    /\ net' = RemoveAt(net, i)
    /\ UNCHANGED <<notes, nextId, page, location, dash, alert, gone, sessionVars, latest>>

\* the form is on screen: not the Loading screen, not the Error Loading Note screen
FormShown == page = "edit" /\ ~edit.loading /\ ~(edit.error # "" /\ edit.formData.title = "")

\* handleChange, the user typing in the title input
handleChange(t) ==
    /\ Idle
    /\ FormShown /\ t # edit.formData.title
    /\ edit' = [edit EXCEPT !.formData.title = t]
    /\ failed' = {}
    /\ UNCHANGED <<notes, nextId, net, page, location, dash, alert, seen, gone, sessionVars, latest>>

\* handleChange, the user typing value into the input called name
TypeField(name, value) ==
    /\ Idle
    /\ FormShown /\ value # edit.formData[name]
    /\ edit' = [edit EXCEPT !.formData[name] = value]
    /\ failed' = {}
    /\ UNCHANGED <<notes, nextId, net, page, location, dash, alert, seen, gone, sessionVars, latest>>

\* String.prototype.trim, on the texts the model types
Trim(str) ==
    CASE str = " " -> ""
      [] str = " C " -> "C"
      [] OTHER -> str

\* variant: the required fields are compared untrimmed
ValidationErrorUntrimmed(f) ==
    IF f.title = "" THEN "Title is required"
    ELSE IF f.content = "" THEN "Content is required"
    ELSE ""

\* handleSubmit: validate required fields ("" when both are there)
ValidationError(f) ==
    IF Trim(f.title) = "" THEN "Title is required"
    ELSE IF Trim(f.content) = "" THEN "Content is required"
    ELSE ""

\* updateData of handleSubmit
SubmitBody(f) ==
    [title |-> Trim(f.title), content |-> Trim(f.content), tags |-> ParseTags(f.tags),
     is_favorite |-> f.is_favorite, version |-> f.version]

\* handleSubmit, up to the await or to the return of a failed validation
\* (the submit button is disabled while saving)
Submit ==
    /\ Idle
    /\ FormShown /\ ~edit.saving
    /\ IF ValidationError(edit.formData) # ""
       THEN /\ edit' = [edit EXCEPT !.saving = FALSE,
                                    !.error = ValidationError(edit.formData)]
            /\ net' = net
       ELSE /\ Room(net)
            /\ edit' = [edit EXCEPT !.saving = TRUE, !.error = ""]
            /\ net' = Append(net, Req("submit", edit.id, SubmitBody(edit.formData), NoCtx))
    /\ failed' = {}
    /\ UNCHANGED <<notes, nextId, page, location, dash, alert, seen, gone, sessionVars, latest>>

\* variant: an accepted submit leaves the held version as it was
SubmitAcceptedKeepsVersion(i) ==
    /\ seen' = SeenNote(seen, net[i].resp.note)
    /\ failed' = failed
    /\ IF page = "edit"
       THEN /\ page' = "dashboard"
            /\ location' = [location EXCEPT !.path = "/dashboard"]
            /\ latest' = "pending"
            /\ dash' = [loadNotes(DashInit, "") EXCEPT !.timers = {""}]
            /\ edit' = IF net[i].live THEN [edit EXCEPT !.saving = FALSE] ELSE edit
            /\ net' = Append(Orphan(RemoveAt(net, i)),
                             Req("loadNotes", 0, ListParams(""), NoCtx))
       ELSE /\ net' = RemoveAt(net, i)
            /\ UNCHANGED <<page, location, dash, edit, latest>>

\* handleSubmit after the await, the update accepted:
\* setFormData(prev => ({...prev, version})), then navigate('/dashboard'), then setSaving(false)
SubmitAccepted(i) ==
    /\ seen' = SeenNote(seen, net[i].resp.note)
    /\ failed' = failed
    /\ IF page = "edit"
       THEN /\ page' = "dashboard"
            /\ location' = [location EXCEPT !.path = "/dashboard"]
            /\ latest' = "pending"
            /\ dash' = [loadNotes(DashInit, "") EXCEPT !.timers = {""}]
            /\ edit' = IF net[i].live
                       THEN [edit EXCEPT !.formData.version = net[i].resp.note.version,
                                         !.saving = FALSE]
                       ELSE edit
            /\ net' = Append(Orphan(RemoveAt(net, i)),
                             Req("loadNotes", 0, ListParams(""), NoCtx))
       ELSE /\ net' = RemoveAt(net, i)
            /\ UNCHANGED <<page, location, dash, edit, latest>>

\* handleSubmit after the await, the update rejected: the catch block, then setSaving(false)
SubmitRejected(i) ==
    /\ edit' = IF ~net[i].live THEN edit
               ELSE IF net[i].resp.status = StatusConflict
               THEN [edit EXCEPT !.error = ConflictMessage, !.saving = FALSE,
                                 !.trail = "conflict"]
               ELSE [edit EXCEPT !.error = getErrorMessage(net[i].resp), !.saving = FALSE]
    /\ net' = RemoveAt(net, i)
    /\ failed' = failed \cup {"update"}
    /\ UNCHANGED <<page, location, dash, seen, latest>>

\* handleSubmit, after the await
DeliverSubmit(i) ==
    /\ Idle
    /\ Answered(i) /\ net[i].src = "submit"
    /\ IF net[i].resp.status = StatusOK THEN SubmitAccepted(i) ELSE SubmitRejected(i)
    /\ UNCHANGED <<notes, nextId, alert, gone, sessionVars>>

\* error.includes('version conflict'), on the messages of the model (case matters)
IncludesVersionConflict(str) == str = "Update failed: version conflict"

\* error.includes('modified by another'), on the messages of the model
IncludesModifiedByAnother(str) == str = ConflictMessage

\* error.includes('version conflict') || error.includes('modified by another') && <button>:
\* && binds tighter than ||, and a bare true renders nothing
RefreshShown ==
    /\ FormShown /\ edit.error # ""
    /\ ~IncludesVersionConflict(edit.error) /\ IncludesModifiedByAnother(edit.error)

\* handleRefresh: loadNote()
Refresh ==
    /\ Idle
    /\ RefreshShown
    /\ Room(net)
    /\ edit' = loadNote(edit)
    /\ net' = Append(net, Req("loadNote", edit.id, NoBody, NoCtx))
    /\ failed' = {}
    /\ UNCHANGED <<notes, nextId, page, location, dash, alert, seen, gone, sessionVars, latest>>

\* ------------------------------------------------------------ specification
\* the session the notes pages run in: Me logged in, the Dashboard's route shown
LoggedIn ==
    /\ auth = [user |-> Me, loading |-> FALSE, mounted |-> TRUE]
    /\ token = 1
    /\ location = [path |-> "/dashboard", href |-> NoHref]
    /\ areq = <<>>
    /\ idp = [issued |-> 1, owner |-> [t \in Tokens |-> IF t = 1 THEN Me ELSE NoUser],
              valid |-> {1}]
    /\ returned = NoReturn
    /\ revoked = {}

Init ==
    /\ notes = [n \in {} |-> NoNote]
    /\ nextId = 1
    /\ net = <<Req("loadNotes", 0, ListParams(""), NoCtx)>>
    /\ page = "dashboard"
    /\ dash = [loadNotes(DashInit, "") EXCEPT !.timers = {""}]
    /\ edit = EditInit
    /\ alert = ""
    /\ seen = [id \in RouteIds |-> 0]
    /\ failed = {}
    /\ gone = {}
    /\ latest = "pending"
    /\ LoggedIn

\* (the search input is left untouched: TypeSearch is part of NextSearch only)
Next ==
    \/ \E u \in Users, data \in NewData : ExtCreate(u, data)
    \/ \E u \in Users, id \in NoteIds, body \in ExtBodies : ExtUpdate(u, id, body)
    \/ \E u \in Users, id \in NoteIds : ExtDelete(u, id)
    \/ \E i \in DOMAIN net : Serve(i)
    \/ \E i \in DOMAIN net : ServeError(i)
    \/ DismissAlert
    \/ \E t \in Queries : TimerFire(t)
    \/ \E i \in DOMAIN net : DeliverList(i)
    \/ \E k \in 1..MaxNotes : ClickToggle(k)
    \/ \E i \in DOMAIN net : DeliverToggle(i)
    \/ \E k \in 1..MaxNotes : ClickDelete(k)
    \/ \E k \in 1..MaxNotes : CancelDelete(k)
    \/ \E i \in DOMAIN net : DeliverDelete(i)
    \/ \E id \in RouteIds : OpenEdit(id)
    \/ BackToDashboard
    \/ \E id \in RouteIds : RouteChange(id)
    \/ \E i \in DOMAIN net : DeliverLoadNote(i)
    \/ \E t \in Titles : handleChange(t)
    \/ Submit
    \/ \E i \in DOMAIN net : DeliverSubmit(i)
    \/ Refresh

Spec == Init /\ [][Next]_vars

\* ------------------------------------------------------------ specification: the edit form
\* texts typed into the title and content inputs
FieldNames == {"title", "content"}

FieldInputs == {"", " ", "A"}

\* the application with the user going to the edit page and using every input of its form
NextEdit ==
    \/ \E data \in NewData : ExtCreate(Me, data)
    \/ \E id \in NoteIds, body \in ExtBodies : ExtUpdate(Me, id, body)
    \/ \E i \in DOMAIN net : Serve(i)
    \/ \E i \in DOMAIN net, d \in ErrorDetails : ServeErrorWith(i, d)
    \/ \E id \in NoteIds : OpenEdit(id)
    \/ \E i \in DOMAIN net : DeliverLoadNote(i)
    \/ \E name \in FieldNames, value \in FieldInputs : TypeField(name, value)
    \/ Submit
    \/ \E i \in DOMAIN net : DeliverSubmit(i)
    \/ Refresh

SpecEdit == Init /\ [][NextEdit]_vars

\* ------------------------------------------------------------ specification: the search box
\* the application with the user typing in the Dashboard's search box and moving
\* between the Dashboard and the edit page
NextSearch ==
    \/ \E data \in NewData : ExtCreate(Me, data)
    \/ \E id \in NoteIds, body \in ExtBodies : ExtUpdate(Me, id, body)
    \/ \E i \in DOMAIN net : Serve(i)
    \/ \E i \in DOMAIN net : ServeError(i)
    \/ \E t \in Queries : TimerFire(t)
    \/ \E q \in Queries : TypeSearch(q)
    \/ \E i \in DOMAIN net : DeliverList(i)
    \/ \E id \in NoteIds : OpenEdit(id)
    \/ BackToDashboard
    \/ \E i \in DOMAIN net : DeliverLoadNote(i)

SpecSearch == Init /\ [][NextSearch]_vars

\* ------------------------------------------------------------ authentication endpoints
\* (not in src/: written from spec.md sections 3 and 6 and the README's Authentication)
MaxAuthInflight == 2

\* what a login or signup form submits: the account of a user, or something the server rejects
Rejected == "rejected"
Credentials == Users \cup {Rejected}

NoHeader == <<>>
NoAuthResp == [status |-> 0, token |-> NoToken, user |-> NoUser]

\* a request as api.<method>() builds it, before the request interceptor
AuthReq(op, cred) == [op |-> op, cred |-> cred, authorization |-> NoHeader, resp |-> NoAuthResp]

\* a bearer credential identifies the caller when it is a token the server holds valid
Authenticated(h) == Len(h) = 2 /\ h[1] = "Bearer" /\ h[2] \in idp.valid

\* statuses a refused login or signup may carry
LoginFailStatuses == {StatusBadRequest, StatusUnauthorized}
RegisterFailStatuses == {StatusBadRequest}

FailStatuses(op) == IF op = "login" THEN LoginFailStatuses ELSE RegisterFailStatuses

\* GET /auth/me and every notes endpoint: 401 without a valid bearer credential
AnswerProtected(r) ==
    IF Authenticated(r.authorization)
    THEN [status |-> StatusOK, token |-> NoToken, user |-> idp.owner[r.authorization[2]]]
    ELSE [status |-> StatusUnauthorized, token |-> NoToken, user |-> NoUser]

\* the server answers request i
ServeAuth(i) ==
    /\ areq[i].resp = NoAuthResp
    /\ LET r == areq[i] IN
       IF r.op \in {"me", "notes"}
       THEN /\ areq' = [areq EXCEPT ![i].resp = AnswerProtected(r)]
            /\ idp' = idp
       ELSE IF r.cred \in Users
            THEN /\ idp.issued < MaxTokens
                 /\ LET t == idp.issued + 1 IN
                    /\ idp' = [issued |-> t,
                               owner |-> [idp.owner EXCEPT ![t] = r.cred],
                               valid |-> idp.valid \cup {t}]
                    /\ areq' = [areq EXCEPT ![i].resp =
                                   [status |-> StatusOK, token |-> t, user |-> r.cred]]
            ELSE /\ \E st \in FailStatuses(r.op) :
                        areq' = [areq EXCEPT ![i].resp =
                                    [status |-> st, token |-> NoToken, user |-> NoUser]]
                 /\ idp' = idp
    /\ UNCHANGED <<notesVars, auth, token, location, returned, revoked>>

\* the server or the network fails on request i
ServeAuthError(i) ==
    /\ areq[i].resp = NoAuthResp
    /\ areq' = [areq EXCEPT ![i].resp =
                   [status |-> StatusServerError, token |-> NoToken, user |-> NoUser]]
    /\ UNCHANGED <<notesVars, auth, token, location, idp, returned, revoked>>

\* the server-defined expiry of a token passes
ExpireToken(t) ==
    /\ t \in idp.valid
    /\ idp' = [idp EXCEPT !.valid = @ \ {t}]
    /\ UNCHANGED <<notesVars, auth, token, location, areq, returned, revoked>>

\* ------------------------------------------------------------ api.js interceptors
\* variant: the request goes out without the header
RequestInterceptorNoHeader(r, stored) == r

\* request interceptor: Authorization: Bearer <token> when localStorage holds a token
RequestInterceptor(r, stored) ==
    IF stored # NoToken THEN [r EXCEPT !.authorization = <<"Bearer", stored>>] ELSE r

\* variant: the response interceptor leaves localStorage alone
StoredAfterResponseKeeps(resp, stored) == stored

\* response interceptor, status 401: localStorage.removeItem('token')
StoredAfterResponse(resp, stored) ==
    IF resp.status = StatusUnauthorized THEN NoToken ELSE stored

\* response interceptor, status 401: window.location.href = '/login'
HrefAfterResponse(resp, href) ==
    IF resp.status = StatusUnauthorized THEN "/login" ELSE href

\* ------------------------------------------------------------ App.jsx: route guards
\* variant: the guard does not wait for the validation
ProtectedRouteNoLoading(a, children) ==
    IF a.user # NoUser THEN children ELSE "Navigate /login"

ProtectedRoute(a, children) ==
    IF a.loading THEN "Loading"
    ELSE IF a.user # NoUser THEN children ELSE "Navigate /login"

PublicRoute(a, children) ==
    IF a.loading THEN "Loading"
    ELSE IF a.user # NoUser THEN "Navigate /dashboard" ELSE children

PageOf(path) ==
    CASE path = "/login" -> "Login"
      [] path = "/register" -> "Register"
      [] path = "/dashboard" -> "Dashboard"
      [] path = "/notes/new" -> "CreateNote"
      [] path = "/notes/:id/edit" -> "EditNote"

PublicPages == {"Login", "Register"}
ProtectedPages == {"Dashboard", "CreateNote", "EditNote"}

\* what <Routes> renders for a path
Routes(a, path) ==
    IF path \in PublicPaths THEN PublicRoute(a, PageOf(path))
    ELSE ProtectedRoute(a, PageOf(path))

Screen == Routes(auth, location.path)

\* AppLayout: {user && <Header />}
HeaderShown == auth.user # NoUser

\* ------------------------------------------------------------ AuthContext.jsx
getToken == token

isAuthenticated == auth.user # NoUser /\ getToken # NoToken

AuthRoom == Len(areq) < MaxAuthInflight

Send(r) == Append(areq, RequestInterceptor(r, token))

\* variant: no finally block, loading is cleared on the success path only
MeDeliveredNoFinally(a, resp) ==
    IF resp.status = StatusOK
    THEN [a EXCEPT !.user = resp.user, !.loading = FALSE]
    ELSE a

\* initializeAuth after the await: setUser(userData) on success; finally setLoading(false)
MeDelivered(a, resp) ==
    [a EXCEPT !.user = IF resp.status = StatusOK THEN resp.user ELSE @,
              !.loading = FALSE]

\* the mount effect of AuthProvider: initializeAuth() up to its first await or its return
initializeAuth ==
    /\ ~auth.mounted
    /\ IF getToken = NoToken
       THEN /\ auth' = [auth EXCEPT !.loading = FALSE, !.mounted = TRUE]
            /\ areq' = areq
       ELSE /\ auth' = [auth EXCEPT !.mounted = TRUE]
            /\ areq' = Send(AuthReq("me", Rejected))
    /\ UNCHANGED <<notesVars, token, location, idp, returned, revoked>>

\* the Login page calls login(email, password): up to the await
login(cred) ==
    /\ Screen = "Login" /\ AuthRoom
    /\ areq' = Send(AuthReq("login", cred))
    /\ UNCHANGED <<notesVars, auth, token, location, idp, returned, revoked>>

\* the Register page calls register(...): up to the await
register(cred) ==
    /\ Screen = "Register" /\ AuthRoom
    /\ areq' = Send(AuthReq("register", cred))
    /\ UNCHANGED <<notesVars, auth, token, location, idp, returned, revoked>>

\* a protected page calls one of notesAPI's functions
SendNotes ==
    /\ Screen \in ProtectedPages /\ AuthRoom
    /\ areq' = Send(AuthReq("notes", Rejected))
    /\ UNCHANGED <<notesVars, auth, token, location, idp, returned, revoked>>

FailureMessage(op) ==
    IF op = "login" THEN "Login failed. Please try again."
    ELSE "Registration failed. Please try again."

\* the answer to request i reaches the client: the response interceptor, then the
\* continuation of the function that awaited it
DeliverAuth(i) ==
    /\ areq[i].resp # NoAuthResp
    /\ LET r == areq[i]
           ok == r.resp.status = StatusOK
           stored == StoredAfterResponse(r.resp, token)
       IN
       /\ location' = [location EXCEPT !.href = HrefAfterResponse(r.resp, @)]
       /\ CASE r.op = "me" ->
                 /\ auth' = MeDelivered(auth, r.resp)
                 /\ token' = IF ok THEN stored ELSE NoToken
                 /\ returned' = returned
            [] r.op \in {"login", "register"} ->
                 /\ auth' = [auth EXCEPT !.user = IF ok THEN r.resp.user ELSE @]
                 /\ token' = IF ok THEN r.resp.token ELSE stored
                 /\ returned' = [call |-> r.op, success |-> ok,
                                 error |-> IF ok THEN "" ELSE FailureMessage(r.op)]
            [] r.op = "notes" ->
                 /\ auth' = auth
                 /\ token' = stored
                 /\ returned' = returned
    /\ revoked' = IF areq[i].resp.status = StatusUnauthorized /\ token # NoToken
                  THEN revoked \cup {token} ELSE revoked
    /\ areq' = RemoveAt(areq, i)
    /\ UNCHANGED <<notesVars, idp>>

\* Header's handleLogout: logout(), then navigate('/login')
logout ==
    /\ HeaderShown
    /\ token' = NoToken
    /\ auth' = [auth EXCEPT !.user = NoUser]
    /\ location' = [location EXCEPT !.path = "/login"]
    /\ UNCHANGED <<notesVars, areq, idp, returned, revoked>>

\* Header's links to /dashboard and /notes/new
HeaderLinks == {"/dashboard", "/notes/new"}

FollowLink(p) ==
    /\ HeaderShown /\ p \in HeaderLinks /\ p # location.path
    /\ location' = [location EXCEPT !.path = p]
    /\ UNCHANGED <<notesVars, sessionVars>>

\* a guard rendered <Navigate to=... replace />
Redirect ==
    /\ Screen \in {"Navigate /login", "Navigate /dashboard"}
    /\ location' = [location EXCEPT
                       !.path = IF Screen = "Navigate /login" THEN "/login" ELSE "/dashboard"]
    /\ UNCHANGED <<notesVars, sessionVars>>

\* the user enters an address of the application in the address bar
EnterUrl(p) ==
    /\ location.href = NoHref
    /\ location' = [location EXCEPT !.href = p]
    /\ UNCHANGED <<notesVars, sessionVars>>

\* the browser loads the document an assignment to window.location.href asked for:
\* the application starts anew, what the old document awaited is dropped
LoadDocument ==
    /\ location.href # NoHref
    /\ location' = [path |-> location.href, href |-> NoHref]
    /\ auth' = [user |-> NoUser, loading |-> TRUE, mounted |-> FALSE]
    /\ areq' = <<>>
    /\ UNCHANGED <<notesVars, token, idp, returned, revoked>>

\* ------------------------------------------------------------ specification: the session
\* the application is opened at one of its routes, with or without a token stored by an
\* earlier visit, that token valid or expired; the notes pages' own state is left out
InitAuth ==
    /\ notes = [n \in {} |-> NoNote]
    /\ nextId = 1
    /\ net = <<>>
    /\ page = "dashboard"
    /\ dash = DashInit
    /\ edit = EditInit
    /\ alert = ""
    /\ seen = [id \in RouteIds |-> 0]
    /\ failed = {}
    /\ gone = {}
    /\ latest = "none"
    /\ auth = [user |-> NoUser, loading |-> TRUE, mounted |-> FALSE]
    /\ location \in [path : Paths, href : {NoHref}]
    /\ areq = <<>>
    /\ returned = NoReturn
    /\ revoked = {}
    /\ \/ /\ token = NoToken
          /\ idp = [issued |-> 0, owner |-> [t \in Tokens |-> NoUser], valid |-> {}]
       \/ /\ token = 1
          /\ \E v \in {{}, {1}} :
                idp = [issued |-> 1,
                       owner |-> [t \in Tokens |-> IF t = 1 THEN Me ELSE NoUser],
                       valid |-> v]

NextAuth ==
    \/ initializeAuth
    \/ \E cred \in Credentials : login(cred)
    \/ \E cred \in Credentials : register(cred)
    \/ SendNotes
    \/ \E i \in DOMAIN areq : ServeAuth(i)
    \/ \E i \in DOMAIN areq : ServeAuthError(i)
    \/ \E t \in Tokens : ExpireToken(t)
    \/ \E i \in DOMAIN areq : DeliverAuth(i)
    \/ logout
    \/ \E p \in Paths : FollowLink(p)
    \/ Redirect
    \/ \E p \in Paths : EnterUrl(p)
    \/ LoadDocument

SpecAuth == InitAuth /\ [][NextAuth]_vars

\* the session with the address bar left alone, the server answering every request (or
\* the request failing), the browser delivering every answer and loading the document
\* that an assignment to window.location.href asked for
NextAuthLoad ==
    \/ initializeAuth
    \/ \E cred \in Credentials : login(cred)
    \/ \E cred \in Credentials : register(cred)
    \/ SendNotes
    \/ \E i \in DOMAIN areq : ServeAuth(i)
    \/ \E i \in DOMAIN areq : ServeAuthError(i)
    \/ \E t \in Tokens : ExpireToken(t)
    \/ \E i \in DOMAIN areq : DeliverAuth(i)
    \/ logout
    \/ \E p \in Paths : FollowLink(p)
    \/ Redirect
    \/ LoadDocument

Answers == \E i \in DOMAIN areq : ServeAuth(i) \/ ServeAuthError(i)

Delivers == \E i \in DOMAIN areq : DeliverAuth(i)

SpecAuthFair ==
    /\ InitAuth /\ [][NextAuthLoad]_vars
    /\ WF_vars(initializeAuth)
    /\ WF_vars(Answers)
    /\ WF_vars(Delivers)
    /\ WF_vars(LoadDocument)

\* ------------------------------------------------------------ update steps
\* request i of the browser client is an update
IsUpdate(i) == net[i].src \in {"toggle", "submit"}

\* this step is the store handling update request i of the browser client
ServeUpdate(i) == IsUpdate(i) /\ Serve(i)

\* bodies of the updates the model's sessions send for stored notes
UpdateBodies ==
    ExtBodies \cup {net[i].body : i \in {j \in DOMAIN net : IsUpdate(j)}}

\* this step is a successful update of note id
UpdatedNow(id) ==
    \/ \E i \in DOMAIN net :
          ServeUpdate(i) /\ net[i].id = id /\ net'[i].resp.status = StatusOK
    \/ \E u \in Users, body \in ExtBodies :
          ExtUpdate(u, id, body) /\ UpdateOk(notes, u, id, body)

\* ------------------------------------------------------------ C1
\* C1: of two updates of one note presenting the same expectedVersion exactly one
\* succeeds and the other gets 409. The update handled while the stored version equals
\* its expectedVersion is accepted and the stored note becomes the stored note with that
\* update's field changes alone; any update presenting the same expectedVersion to the
\* resulting store is answered 409 and writes nothing (no merge). No two updates of one
\* note with one expectedVersion are ever both accepted.
WinnerTakesAll(u, id, body) ==
    /\ notes'[id] = ApplyChanges(notes[id], body)
    /\ \A f \in (DOMAIN notes[id]) \ (DOMAIN body \cup {"updated_at"}) :
          notes'[id][f] = notes[id][f]
    /\ \A b2 \in UpdateBodies :
          b2.version = body.version =>
              /\ UpdateResp(notes', u, id, b2) = Conflict
              /\ UpdateStore(notes', u, id, b2) = notes'

C1_Step ==
    /\ \A i \in DOMAIN net :
          ServeUpdate(i) /\ UpdateOk(notes, Me, net[i].id, net[i].body) =>
              /\ net'[i].resp.status = StatusOK
              /\ WinnerTakesAll(Me, net[i].id, net[i].body)
    /\ \A u \in Users, id \in NoteIds, body \in ExtBodies :
          ExtUpdate(u, id, body) /\ UpdateOk(notes, u, id, body) =>
              WinnerTakesAll(u, id, body)

C1_NotBoth ==
    \A i, j \in DOMAIN net :
        (/\ i # j /\ IsUpdate(i) /\ IsUpdate(j)
         /\ net[i].id = net[j].id /\ net[i].body.version = net[j].body.version
         /\ net[i].resp.status = StatusOK)
        => net[j].resp.status # StatusOK

C1_ExactlyOneWins == [](C1_NotBoth) /\ [][C1_Step]_vars

\* two updates of the same note with the same expectedVersion, both answered: one 200, one 409
C1_Witness ==
    \E i, j \in DOMAIN net :
        /\ i # j /\ IsUpdate(i) /\ IsUpdate(j)
        /\ net[i].id = net[j].id /\ net[i].body.version = net[j].body.version
        /\ net[i].resp.status = StatusOK /\ net[j].resp.status = StatusConflict
        /\ Exists(notes, net[i].id)
        /\ notes[net[i].id].version = net[i].body.version + 1

\* ------------------------------------------------------------ C2
\* C2: an update of the caller's note whose expectedVersion differs from the stored
\* version is answered 409 and the store keeps every field of the note: title, content,
\* tags, is_favorite, version and updated_at.
StaleRejected(u, id, body) ==
    /\ UpdateResp(notes, u, id, body) = Conflict
    /\ notes' = notes

C2_Step ==
    /\ \A i \in DOMAIN net :
          (/\ ServeUpdate(i) /\ Owned(notes, Me, net[i].id)
           /\ notes[net[i].id].version # net[i].body.version)
          => /\ net'[i].resp.status = StatusConflict
             /\ net'[i].resp.note = NoNote
             /\ StaleRejected(Me, net[i].id, net[i].body)
    /\ \A u \in Users, id \in NoteIds, body \in ExtBodies :
          (/\ ExtUpdate(u, id, body) /\ Owned(notes, u, id)
           /\ notes[id].version # body.version)
          => StaleRejected(u, id, body)

C2_StaleUpdateChangesNothing == [][C2_Step]_vars

\* a stale update of the browser client was answered 409; the note is still stored
C2_Witness ==
    \E i \in DOMAIN net :
        /\ IsUpdate(i) /\ net[i].resp.status = StatusConflict
        /\ Owned(notes, Me, net[i].id)
        /\ notes[net[i].id].version > net[i].body.version
        /\ "title" \in DOMAIN net[i].body
        /\ notes[net[i].id].title # net[i].body.title

\* ------------------------------------------------------------ C3
\* C3: a note is created with version 1; in every step the version of a stored note
\* either stays or grows by exactly 1, and it grows exactly in the steps that are a
\* successful update of that note; versions are positive.
C3_Step ==
    \A id \in NoteIds :
        /\ (~Exists(notes, id) /\ Exists(notes', id)) => notes'[id].version = 1
        /\ (Exists(notes, id) /\ Exists(notes', id)) =>
              /\ notes'[id].version \in {notes[id].version, notes[id].version + 1}
              /\ (notes'[id].version = notes[id].version + 1) <=> UpdatedNow(id)

C3_Positive == \A id \in DOMAIN notes : notes[id].version >= 1

C3_VersionCounts == [](C3_Positive) /\ [][C3_Step]_vars

\* a note updated twice, a failed update of it answered
C3_Witness ==
    \E id \in DOMAIN notes :
        /\ notes[id].version = 3
        /\ \E i \in DOMAIN net :
              IsUpdate(i) /\ net[i].id = id /\ net[i].resp.status = StatusConflict

\* ------------------------------------------------------------ requests issued
\* the request this step adds to those in flight
Newest == net'[Len(net')]

\* this step issues a PUT /notes/{id}
PutIssued == Len(net') = Len(net) + 1 /\ Newest.src \in {"toggle", "submit"}

\* this step issues the PUT of handleSubmit
SubmitIssued == Len(net') = Len(net) + 1 /\ Newest.src = "submit"

OpOf(src) ==
    CASE src = "loadNotes" -> "list"
      [] src = "loadNote" -> "get"
      [] src = "delete" -> "delete"
      [] OTHER -> "update"

\* requests of operation op that wait for their answer
Waiting(q, op) == {k \in DOMAIN q : q[k].resp = NoResp /\ OpOf(q[k].src) = op}

\* this step issues a request of operation op
Issues(op) == Cardinality(Waiting(net', op)) > Cardinality(Waiting(net, op))

\* this step is the user acting on the page
UserAction ==
    \/ \E k \in 1..MaxNotes : ClickToggle(k) \/ ClickDelete(k) \/ CancelDelete(k)
    \/ \E id \in RouteIds : OpenEdit(id) \/ RouteChange(id)
    \/ BackToDashboard
    \/ \E t \in Titles : handleChange(t)
    \/ \E q \in Queries : TypeSearch(q)
    \/ Submit
    \/ Refresh

\* ------------------------------------------------------------ C4
\* C4: every PUT /notes/{id} the client issues carries the version the client most
\* recently received from the store for that note id.
C4_Step == PutIssued => Newest.body.version = seen[Newest.id]

C4_PutCarriesLastSeenVersion == [][C4_Step]_vars

\* ------------------------------------------------------------ C5
\* C5: when an update of the client is answered 409, what the handler shows the user
\* (the form's error for handleSubmit, the alert for handleToggleFavorite) is not the
\* generic message getErrorMessage gives for the response.
C5_Step ==
    \A i \in DOMAIN net :
        /\ (DeliverSubmit(i) /\ net[i].live /\ net[i].resp.status = StatusConflict)
              => edit'.error # getErrorMessage(net[i].resp)
        /\ (DeliverToggle(i) /\ net[i].resp.status = StatusConflict)
              => alert' # getErrorMessage(net[i].resp)

C5_ConflictShownDistinctly == [][C5_Step]_vars

\* ------------------------------------------------------------ C6
\* C6: while the edit session is Conflicted (a submit of it was answered 409 and no
\* load has completed since) it issues no PUT.
Conflicted == page = "edit" /\ edit.trail = "conflict"

C6_Step == Conflicted => ~SubmitIssued

C6_NoSubmitWhileConflicted == [][C6_Step]_vars

\* ------------------------------------------------------------ C7
\* C7: a submit sends the held version and sets saving; the session is saving exactly
\* while its PUT is in flight; the answer moves it to exactly one of: held version =
\* version of the returned note = sent version + 1 (200), error = the conflict message
\* with the held version unchanged (409), another error message with the held version
\* unchanged (any other failure); saving ends in each case.
C7_Step ==
    /\ (Submit /\ ValidationError(edit.formData) = "") =>
          /\ SubmitIssued /\ edit'.saving
          /\ Newest.body.version = edit.formData.version
          /\ edit'.formData.version = edit.formData.version
    /\ \A i \in DOMAIN net :
          (DeliverSubmit(i) /\ net[i].live) =>
              /\ edit.saving /\ ~edit'.saving
              /\ IF net[i].resp.status = StatusOK
                 THEN /\ edit'.formData.version = net[i].resp.note.version
                      /\ edit'.formData.version = net[i].body.version + 1
                      /\ edit'.error # ConflictMessage
                 ELSE IF net[i].resp.status = StatusConflict
                 THEN /\ edit'.formData.version = edit.formData.version
                      /\ edit'.error = ConflictMessage
                 ELSE /\ edit'.formData.version = edit.formData.version
                      /\ edit'.error \notin {"", ConflictMessage}

C7_Saving ==
    /\ page = "edit" =>
          (edit.saving <=> \E i \in DOMAIN net : net[i].src = "submit" /\ net[i].live)
    /\ Cardinality({i \in DOMAIN net : net[i].src = "submit" /\ net[i].live}) <= 1

C8_Step ==
    /\ \A i \in DOMAIN net :
          (Serve(i) /\ net[i].src = "loadNote" /\ Owned(notes, Me, net[i].id)) =>
              /\ net'[i].resp.status = StatusOK
              /\ net'[i].resp.note.version = notes[net[i].id].version
    /\ \A i \in DOMAIN net :
          (DeliverLoadNote(i) /\ net[i].resp.status = StatusOK) =>
              /\ edit'.formData.version = net[i].resp.note.version
              /\ ~edit'.loading
    /\ Refresh => (Newest.src = "loadNote" /\ Newest.id = edit.id)
    /\ (Submit /\ ValidationError(edit.formData) = "") =>
          (Newest.body.version = edit.formData.version /\ Newest.id = edit.id)
    /\ \A i \in DOMAIN net :
          (/\ Serve(i) /\ net[i].src = "submit" /\ Owned(notes, Me, net[i].id)
           /\ notes[net[i].id].version = net[i].body.version)
          => /\ net'[i].resp.status = StatusOK
             /\ notes'[net[i].id].version = net[i].body.version + 1

C8_ReloadThenResubmit == [][C8_Step]_vars

\* after a 409 and a completed reload the session resubmitted and was accepted
C8_Witness ==
    /\ page = "edit" /\ edit.trail = "reloaded" /\ edit.saving
    /\ \E i \in DOMAIN net :
          /\ net[i].src = "submit" /\ net[i].live /\ net[i].id = edit.id
          /\ net[i].resp.status = StatusOK
          /\ net[i].body.version = seen[edit.id]
          /\ net[i].body.version > 1

\* ------------------------------------------------------------ C9
\* C9 (as stated): after an operation was answered with an error, the client issues no
\* request for that operation unless the user acts.
C9_StepAsStated == (\E op \in failed : Issues(op)) => UserAction

C9_NoRequestAfterErrorAsStated == [][C9_StepAsStated]_vars

\* C9 (amended): no handler answers an error by sending a request: the step that
\* delivers an error response only takes that request out of flight. After an error the
\* client issues a request for the failed operation only when the user acts or when the
\* Dashboard's debounce timer, armed before, expires; the timer is not armed again by
\* expiring or by a failure.
ErrorDelivered(i) ==
    /\ net[i].resp.status # StatusOK
    /\ DeliverList(i) \/ DeliverToggle(i) \/ DeliverDelete(i) \/ DeliverLoadNote(i)
          \/ DeliverSubmit(i)

C9_Step ==
    /\ \A i \in DOMAIN net : ErrorDelivered(i) =>
          /\ net' = RemoveAt(net, i)
          /\ dash'.timers = dash.timers
    /\ (\E op \in failed : Issues(op)) => (UserAction \/ \E t \in Queries : TimerFire(t))
    /\ \A t \in Queries : TimerFire(t) => dash'.timers = dash.timers \ {t}

C9_NoRetryOnError == [][C9_Step]_vars

\* the list request failed and the debounce timer has sent the next one, the user idle
C9_Witness ==
    /\ "list" \in failed /\ page = "dashboard" /\ dash.timers = {}
    /\ dash.error # ""
    /\ Waiting(net, "list") # {}

\* ------------------------------------------------------------ C10
\* C10: for a stored note and a user who does not own it, get, update and delete answer
\* 404 and write nothing, and every answer to that user (get, update, delete, list) is
\* the answer of the store that differs only in not holding the note.
Without(S, id) == [n \in (DOMAIN S) \ {id} |-> S[n]]

SameAsAbsent(u, id) ==
    LET S0 == Without(notes, id)
    IN  /\ GetResp(notes, u, id) = NotFound
        /\ GetResp(notes, u, id) = GetResp(S0, u, id)
        /\ DeleteResp(notes, u, id) = NotFound
        /\ DeleteResp(notes, u, id) = DeleteResp(S0, u, id)
        /\ DeleteStore(notes, u, id) = notes
        /\ \A b \in UpdateBodies :
              /\ UpdateResp(notes, u, id, b) = NotFound
              /\ UpdateResp(notes, u, id, b) = UpdateResp(S0, u, id, b)
              /\ UpdateStore(notes, u, id, b) = notes
        /\ \A q \in {Omitted} \cup Titles : ListResp(notes, u, q) = ListResp(S0, u, q)

C10_Hidden ==
    \A u \in Users, id \in NoteIds :
        (Exists(notes, id) /\ notes[id].owner # u) => SameAsAbsent(u, id)

C10_Step ==
    \A i \in DOMAIN net :
        (/\ Serve(i) /\ net[i].src \in {"loadNote", "toggle", "submit", "delete"}
         /\ Exists(notes, net[i].id) /\ notes[net[i].id].owner # Me)
        => /\ net'[i].resp = NotFound
           /\ notes' = notes

C10_NonOwnerSeesNotFound == [](C10_Hidden) /\ [][C10_Step]_vars

\* another user's note is stored and the client holds the store's 404 for its id
C10_Witness ==
    \E i \in DOMAIN net :
        /\ net[i].src = "loadNote" /\ net[i].resp = NotFound
        /\ Exists(notes, net[i].id) /\ notes[net[i].id].owner # Me

\* ------------------------------------------------------------ C11
\* C11: a submit whose title or content is empty or only blanks sends no request and
\* writes nothing: the requests in flight, the store and the form with its held version
\* are as before, the error is 'Title is required' or 'Content is required', and saving
\* is false.
Blank(str) == str \in {"", " "}

C11_Step ==
    (Submit /\ (Blank(edit.formData.title) \/ Blank(edit.formData.content))) =>
        /\ net' = net /\ ~PutIssued
        /\ notes' = notes
        /\ edit'.formData = edit.formData
        /\ edit'.error = IF Blank(edit.formData.title) THEN "Title is required"
                         ELSE "Content is required"
        /\ ~edit'.saving

C11_InvalidSubmitSendsNothing == [][C11_Step]_vars

\* a form whose content is only blanks was submitted and refused
C11_Witness ==
    /\ page = "edit" /\ edit.formData.content = " " /\ edit.formData.title = "A"
    /\ edit.error = "Content is required" /\ ~edit.saving
    /\ \A i \in DOMAIN net : net[i].src # "submit"

\* ------------------------------------------------------------ C19
\* C19: whenever the form shows an error that contains 'version conflict' or contains
\* 'modified by another', the Refresh Note button is offered.
C19_RefreshOfferedOnConflictText ==
    (/\ FormShown /\ edit.error # ""
     /\ IncludesVersionConflict(edit.error) \/ IncludesModifiedByAnother(edit.error))
    => RefreshShown

\* ------------------------------------------------------------ C16
\* C16: a successful delete takes the note out of the store and its id never resolves
\* again: every get of an id once assigned and no longer stored answers 404. The
\* Dashboard's delete handler takes the note out of the list when the delete succeeded
\* and leaves the list as it was when the delete failed or was not confirmed.
DeletedNow(id) ==
    \/ \E i \in DOMAIN net :
          /\ Serve(i) /\ net[i].src = "delete" /\ net[i].id = id
          /\ net'[i].resp.status = StatusOK
    \/ \E u \in Users : ExtDelete(u, id) /\ Owned(notes, u, id)

Listed(ns) == {ns[k].id : k \in DOMAIN ns}

C16_Step ==
    /\ \A id \in NoteIds :
          /\ DeletedNow(id) => ~Exists(notes', id)
          /\ (id < nextId /\ ~Exists(notes, id)) => ~Exists(notes', id)
          /\ (Exists(notes, id) /\ ~Exists(notes', id)) => DeletedNow(id)
    /\ \A i \in DOMAIN net :
          (DeliverDelete(i) /\ net[i].live) =>
              IF net[i].resp.status = StatusOK
              THEN net[i].id \notin Listed(dash'.notes)
              ELSE dash'.notes = dash.notes
    /\ \A k \in 1..MaxNotes : CancelDelete(k) => (dash' = dash /\ net' = net)

C16_Unresolved ==
    \A id \in NoteIds, u \in Users :
        (id < nextId /\ ~Exists(notes, id)) => GetResp(notes, u, id) = NotFound

C16_HardDelete == [](C16_Unresolved) /\ [][C16_Step]_vars

\* the client saw its delete succeed, asked for the note again and holds the store's 404
C16_Witness ==
    /\ gone # {}
    /\ \E i \in DOMAIN net :
          /\ net[i].src = "loadNote" /\ net[i].id \in gone
          /\ net[i].resp = NotFound

\* ------------------------------------------------------------ C20
\* C20: the answers to the client's toggles and deletes keep the Dashboard's list
\* consistent: when such an answer is delivered to a consistent list and leaves no toggle
\* and no delete in flight, every note of the list carries the version the client most
\* recently received for it and none is a note whose delete the client saw succeed.
ListConsistent(ns, sn, g) ==
    \A k \in DOMAIN ns : ns[k].id \notin g /\ ns[k].version = sn[ns[k].id]

QuietAfter(q) == \A i \in DOMAIN q : q[i].src \notin {"toggle", "delete"}

C20_Step ==
    \A i \in DOMAIN net :
        (/\ DeliverToggle(i) \/ DeliverDelete(i)
         /\ net[i].live /\ page = "dashboard"
         /\ ListConsistent(dash.notes, seen, gone)
         /\ QuietAfter(net'))
        => ListConsistent(dash'.notes, seen', gone')

C20_ListConsistentWhenQuiet == [][C20_Step]_vars

\* ------------------------------------------------------------ C17
\* C17 (as stated): at most one debounce timer is pending, and a list request is sent
\* only by a timer expiring, for the query the search box holds then, the search
\* parameter omitted when that query is empty.
C17_OneTimer == Cardinality(dash.timers) <= 1 /\ dash.timers \subseteq {dash.searchQuery}

SentByTimer ==
    \E t \in Queries :
        /\ TimerFire(t) /\ t = dash.searchQuery
        /\ Newest.body = [search |-> IF t = "" THEN Omitted ELSE t]

C17_StepAsStated == Issues("list") => SentByTimer

C17_ListOnlyByTimerAsStated == [](C17_OneTimer) /\ [][C17_StepAsStated]_vars

\* C17 (amended): at most one debounce timer is pending and it is the one started for
\* the query the search box holds; each change of the query replaces the pending timer
\* by one for the new query; a list request is sent either by the Dashboard mounting
\* (search omitted, the box empty) or by the timer expiring, for the query the box holds
\* then, the search parameter omitted when that query is empty.
SentByMount ==
    /\ page' = "dashboard" /\ page = "edit"
    /\ dash'.searchQuery = "" /\ dash'.timers = {""}
    /\ Newest.body = [search |-> Omitted]

C17_Step ==
    /\ Issues("list") => (SentByTimer \/ SentByMount)
    /\ \A q \in Queries : TypeSearch(q) => (dash'.timers = {q} /\ net' = net)

C17_Debounce == [](C17_OneTimer) /\ [][C17_Step]_vars

\* the user typed C, the timer expired and the search for C is in flight
C17_Witness ==
    /\ page = "dashboard" /\ dash.searchQuery = "C" /\ dash.timers = {}
    /\ \E i \in DOMAIN net :
          net[i].src = "loadNotes" /\ net[i].body.search = "C" /\ ~Answered(i)

\* ------------------------------------------------------------ C13
\* C13: every request sent while a token is stored carries Authorization: Bearer <the
\* token stored at the moment of sending>; a request sent while none is stored carries
\* no Authorization header, and a notes endpoint answers such a request with 401.
Sends == Len(areq') = Len(areq) + 1

Sent == areq'[Len(areq')]

C13_Step ==
    /\ Sends => /\ token # NoToken => Sent.authorization = <<"Bearer", token>>
                /\ token = NoToken => Sent.authorization = NoHeader
    /\ \A i \in DOMAIN areq :
          (ServeAuth(i) /\ areq[i].op = "notes" /\ areq[i].authorization = NoHeader)
          => areq'[i].resp.status = StatusUnauthorized

C13_BearerAtSendTime == [][C13_Step]_vars

\* a notes request went out with no token stored and has been answered 401, while
\* another one carries the token stored when it was sent
C13_Witness ==
    \E i, j \in DOMAIN areq :
        /\ areq[i].op = "notes" /\ areq[i].authorization = NoHeader
        /\ areq[i].resp.status = StatusUnauthorized
        /\ areq[j].op = "notes" /\ areq[j].authorization = <<"Bearer", 1>>

\* ------------------------------------------------------------ C14
\* C14: at a protected route the page (Dashboard, CreateNote, EditNote) is rendered only
\* when loading is false and user is set; while loading the Loading screen is rendered,
\* and with loading false and no user a redirect to /login. At a public route the page
\* (Login, Register) is rendered only when loading is false and user is null; while
\* loading the Loading screen is rendered, and with a user a redirect to /dashboard.
C14_Protected ==
    /\ Screen \in ProtectedPages =>
          (location.path \in ProtectedPaths /\ ~auth.loading /\ auth.user # NoUser)
    /\ (location.path \in ProtectedPaths /\ Screen \notin ProtectedPages) =>
          Screen = IF auth.loading THEN "Loading" ELSE "Navigate /login"

C14_Public ==
    /\ Screen \in PublicPages =>
          (location.path \in PublicPaths /\ ~auth.loading /\ auth.user = NoUser)
    /\ (location.path \in PublicPaths /\ Screen \notin PublicPages) =>
          Screen = IF auth.loading THEN "Loading" ELSE "Navigate /dashboard"

C14_RouteGuards == C14_Protected /\ C14_Public

\* the application was opened with a valid token, the validation has set the user and
\* the guard renders the protected page
C14_Witness ==
    /\ location.path = "/notes/new" /\ Screen = "CreateNote"
    /\ auth.user = Me /\ token = 1 /\ returned = NoReturn

\* ------------------------------------------------------------ C12
\* C12: when a response with status 401 reaches the client, the stored token is removed
\* and the browser is sent to /login; no request sent afterwards carries a token that a
\* 401 removed; and once no token is stored, one is stored again only by a login or a
\* register that succeeded.
Unauthorized(i) == DeliverAuth(i) /\ areq[i].resp.status = StatusUnauthorized

Acquired(i) ==
    /\ DeliverAuth(i) /\ areq[i].op \in {"login", "register"}
    /\ areq[i].resp.status = StatusOK /\ token' = areq[i].resp.token

C12_Step ==
    /\ \A i \in DOMAIN areq :
          Unauthorized(i) => (token' = NoToken /\ location'.href = "/login" /\ ~isAuthenticated')
    /\ Sends => (Sent.authorization = NoHeader \/ Sent.authorization[2] \notin revoked)
    /\ (token' # token /\ token' # NoToken) => \E i \in DOMAIN areq : Acquired(i)
    /\ (LoadDocument /\ token = NoToken) => auth'.user = NoUser

C12_RemovedNotStored == token \notin revoked

C12_UnauthorizedEndsSession == [](C12_RemovedNotStored) /\ [][C12_Step]_vars

\* a 401 ended the session of token 1; the user logged in again and works with token 2
C12_Witness ==
    /\ revoked = {1} /\ token = 2 /\ auth.user = Me /\ Screen = "Dashboard"
    /\ \E i \in DOMAIN areq : areq[i].op = "notes" /\ areq[i].resp.status = StatusOK

\* ------------------------------------------------------------ C15
\* C15: a login or register that succeeds stores the returned token and sets the user;
\* one that fails returns {success: false, error} and leaves the stored token and the
\* user as they were; logout removes the token and sets user to null, after which
\* isAuthenticated() is false.
C15_Step ==
    /\ \A i \in DOMAIN areq :
          (DeliverAuth(i) /\ areq[i].op \in {"login", "register"}) =>
             IF areq[i].resp.status = StatusOK
             THEN /\ token' = areq[i].resp.token /\ auth'.user = areq[i].resp.user
                  /\ returned'.success
             ELSE /\ ~returned'.success /\ returned'.error # ""
                  /\ token' = token /\ auth'.user = auth.user
    /\ logout => (token' = NoToken /\ auth'.user = NoUser /\ ~isAuthenticated')

C15_AcquiredAtLoginReleasedAtLogout == [][C15_Step]_vars

\* ------------------------------------------------------------ C18
\* C18: every load of the application ends with loading = false. With no token stored
\* initializeAuth sends nothing and user stays null; with a token whose validation
\* succeeds, user becomes the fetched user; with a token whose validation fails, the
\* token is removed and user stays null. user is set only by a validation, a login or a
\* register that succeeded.
Validated(i) == DeliverAuth(i) /\ areq[i].op = "me"

C18_Step ==
    /\ (initializeAuth /\ token = NoToken) =>
          (areq' = areq /\ auth'.user = NoUser /\ ~auth'.loading)
    /\ (initializeAuth /\ token # NoToken) =>
          (Sends /\ Sent.op = "me" /\ auth'.user = NoUser)
    /\ \A i \in DOMAIN areq :
          Validated(i) =>
             /\ ~auth'.loading
             /\ IF areq[i].resp.status = StatusOK
                THEN auth'.user = areq[i].resp.user /\ token' = token
                ELSE auth'.user = NoUser /\ token' = NoToken
    /\ (auth'.user # auth.user /\ auth'.user # NoUser) =>
          \E i \in DOMAIN areq :
              /\ DeliverAuth(i) /\ areq[i].op \in {"me", "login", "register"}
              /\ areq[i].resp.status = StatusOK /\ auth'.user = areq[i].resp.user

C18_LoadingEnds == auth.loading ~> ~auth.loading

C18_InitializeAuth == [][C18_Step]_vars /\ C18_LoadingEnds

\* the application was opened with a stored token, its validation failed without a 401:
\* the token is removed, nobody is logged in, loading is over
C18_Witness ==
    /\ idp.issued = 1 /\ token = NoToken /\ revoked = {} /\ areq = <<>>
    /\ auth = [user |-> NoUser, loading |-> FALSE, mounted |-> TRUE]
    /\ returned = NoReturn /\ location.href = NoHref

\* ------------------------------------------------------------ C21
\* C21: the Dashboard's list is the answer to the list request issued last: once that
\* answer is shown, the answer to a list request issued earlier does not replace it,
\* whatever the order the answers arrive in; and loading is false only when no list
\* request of the Dashboard is outstanding.
ListOutstanding == \E i \in DOMAIN net : net[i].src = "loadNotes" /\ net[i].live

C21_Loading == (page = "dashboard" /\ ~dash.loading) => ~ListOutstanding

C21_Step ==
    \A i \in DOMAIN net :
        (DeliverList(i) /\ latest = "shown") => dash'.notes = dash.notes

C21_ListIsLatest == [](C21_Loading) /\ [][C21_Step]_vars

====
